---- MODULE Spec2Model ----
(***************************************************************************)
(* Model of the action dispatcher of hand-gesture-smart-home:              *)
(*   src/src/home/controller.py            HomeController                  *)
(*   src/src/home/backends/ifttt.py        IFTTTBackend                    *)
(*   src/src/home/backends/home_assistant.py  HomeAssistantBackend         *)
(*   src/src/home/backends/google_sdm.py   GoogleSDMBackend                *)
(*                                                                         *)
(* Time is counted in whole ticks; time.time() is the variable now, which  *)
(* only moves forward.  A Python dict is a function whose DOMAIN is the    *)
(* set of keys present.  One Execute step is one whole call of             *)
(* HomeController.execute, including the backend call and every HTTP       *)
(* exchange that call makes; what the remote endpoints answer is the       *)
(* input of the step.                                                      *)
(***************************************************************************)
EXTENDS Integers, Sequences, FiniteSets, TLC

\* ------------------------------------------------------------------------
\* Bounds of the model
\* ------------------------------------------------------------------------
\* value of time.time() when the controller is constructed
StartTime == 10
\* the clock is followed for this many ticks after StartTime
Horizon == 3

MaxTime == StartTime + Horizon

\* ------------------------------------------------------------------------
\* Python values
\* ------------------------------------------------------------------------
None == "<None>"
\* dict.get(key, default)
Get(d, k, default) == IF k \in DOMAIN d THEN d[k] ELSE default
\* d[key] = value
\* variant: the dict is replaced by one that holds only the new entry
Put_onlyKey(d, k, v) == [x \in {k} |-> v]

Put(d, k, v) == [x \in (DOMAIN d) \cup {k} |-> IF x = k THEN v ELSE d[x]]
EmptyDict == [x \in {} |-> 0]
\* variant: the test "action is None", which lets "" through
Falsy_noneOnly(s) == s = None

\* truth value of an Optional[str]: None and "" are falsy
Falsy(s) == s = None \/ s = ""

\* ------------------------------------------------------------------------
\* Inputs
\* ------------------------------------------------------------------------
GestureNames == {"thumbs_up", "fist"}
\* "ac_on" is known to every backend, "lights_on" to the IFTTT and Home
\* Assistant tables only, "party" to none
ActionIds == {"ac_on", "lights_on", "party"}
\* the RecognizedGesture fields execute reads: name and action
Gestures == [name : GestureNames, action : ActionIds \cup {None, ""}]
\* cooldown arguments of execute, in ticks
Cooldowns == {0, 2, 3}

\* An HTTP exchange: err = TRUE is a requests.RequestException (timeout,
\* connection refused); otherwise status is the response's status code and
\* body the access_token field of its JSON body (None: the field is missing).
NoBody == "-"
Answer(err, status, body) == [err |-> err, status |-> status, body |-> body]
TransportError == Answer(TRUE, 0, NoBody)
\* access tokens the token endpoint hands out (never the empty string)
Tokens == {"tokA", "tokB"}
\* what the token endpoint may answer to a refresh request
TokenAnswers ==
    {Answer(FALSE, 200, t) : t \in Tokens}
        \cup {Answer(FALSE, 200, None), Answer(FALSE, 400, NoBody), TransportError}
\* what a command endpoint may answer
CommandAnswers ==
    {Answer(FALSE, s, NoBody) : s \in {200, 201, 401, 500}} \cup {TransportError}
\* the answer is a response with status 200
Status200(ans) == ~ans.err /\ ans.status = 200
\* a token answer that makes _refresh_access_token return True
RefreshOK(ans) == Status200(ans) /\ ans.body # None
\* a request sent by a backend, with the bearer token it carried and the
\* answer it got
TokenRequest(ans) == [req |-> "token", bearer |-> NoBody, ans |-> ans]
CommandRequest(bearer, ans) == [req |-> "command", bearer |-> bearer, ans |-> ans]

\* ------------------------------------------------------------------------
\* State
\* ------------------------------------------------------------------------
VARIABLES
    now,         \* time.time()
    environ,     \* os.environ, as far as the controller and backends read it
    controller,  \* the HomeController: dry_run, _last_action_time, _backend
    call,        \* the latest execute call: arguments, outcome, state before
    lastPass,    \* history: per gesture name, the time of the latest call
                 \* that passed the cooldown gate
    recognizer,  \* the GestureRecognizer: config, _last_action_time
    rcall,       \* the latest call of a GestureRecognizer method
    marks,       \* history: per key, the time of the latest mark_triggered
    asked,       \* history: the answers can_trigger gave at the present
                 \* clock time since the latest mark_triggered
    hand,        \* a HandLandmarks handed to classify
    classified,  \* what classify returned for it
    main,        \* main(): where it is, its locals, and why it ended
    visualizer,  \* the Visualizer: _flash_text, _flash_time
    frameLog     \* history: what the for loop did with each gesture of
                 \* the frame being processed

\* the variables of the dispatcher, of the recognizer and of the classifier
ctlVars == << environ, controller, call, lastPass >>
recVars == << recognizer, rcall, marks, asked >>
clsVars == << hand, classified >>
loopVars == << main, visualizer, frameLog >>
vars == << now, ctlVars, recVars, clsVars, loopVars >>

\* ------------------------------------------------------------------------
\* Backends (src/src/home/backends)
\* ------------------------------------------------------------------------
\* How a trigger call ends: exc = TRUE when it raised an exception that is not
\* a requests.RequestException (ret is then meaningless and kept FALSE), else
\* ret is its return value; backend is the backend object after the call and
\* trace the requests it sent, in order.  A call whose course depends on what
\* the remote end answers is modelled by the set of its possible Results, one
\* for each answer.
Result(ret, backend, trace) ==
    [exc |-> FALSE, ret |-> ret, backend |-> backend, trace |-> trace]
Raised(backend, trace) ==
    [exc |-> TRUE, ret |-> FALSE, backend |-> backend, trace |-> trace]

\* ifttt.py ACTION_EVENTS.get(action, action): an unlisted action is its own
\* event name, so every action has an event
IFTTTBackend(api_key) == [type |-> "ifttt", api_key |-> api_key]

\* variant: a 201 answer counts as success too
IFTTT_post_accept201(self, ans) ==
    LET trace == << CommandRequest(NoBody, ans) >>
    IN  IF ans.err THEN Result(FALSE, self, trace)
        ELSE IF ans.status \in {200, 201} THEN Result(TRUE, self, trace)
        ELSE Result(FALSE, self, trace)

\* IFTTTBackend.trigger, once the POST got the answer ans
IFTTT_post(self, ans) ==
    LET trace == << CommandRequest(NoBody, ans) >>
    IN  IF ans.err THEN Result(FALSE, self, trace)
        ELSE IF ans.status = 200 THEN Result(TRUE, self, trace)
        ELSE Result(FALSE, self, trace)

IFTTT_trigger(self, action) ==
    IF self.api_key = "" THEN {Result(FALSE, self, << >>)}
    ELSE {IFTTT_post(self, ans) : ans \in CommandAnswers}

\* home_assistant.py ACTION_MAP, reduced to the entity variable it names
ACTION_MAP == [a \in {"ac_on", "lights_on"} |->
                  IF a = "ac_on" THEN "HA_CLIMATE_ENTITY" ELSE "HA_LIGHT_ENTITY"]
HomeAssistantBackend(token) == [type |-> "home_assistant", token |-> token]

\* HomeAssistantBackend.trigger, once the POST got the answer ans
HomeAssistant_post(self, ans) ==
    LET trace == << CommandRequest(self.token, ans) >>
    IN  IF ans.err THEN Result(FALSE, self, trace)
        ELSE IF ans.status \in {200, 201} THEN Result(TRUE, self, trace)
        ELSE Result(FALSE, self, trace)

\* variant: the request is sent although the entity id is not configured
HomeAssistant_trigger_noEntityCheck(self, action) ==
    IF self.token = "" THEN {Result(FALSE, self, << >>)}
    ELSE IF action \notin DOMAIN ACTION_MAP THEN {Result(FALSE, self, << >>)}
    ELSE {HomeAssistant_post(self, ans) : ans \in CommandAnswers}

\* HomeAssistantBackend.trigger
HomeAssistant_trigger(self, action) ==
    IF self.token = "" THEN {Result(FALSE, self, << >>)}
    ELSE IF action \notin DOMAIN ACTION_MAP THEN {Result(FALSE, self, << >>)}
    ELSE IF ACTION_MAP[action] \notin environ.HA_ENTITIES
        THEN {Result(FALSE, self, << >>)}
    ELSE {HomeAssistant_post(self, ans) : ans \in CommandAnswers}

\* google_sdm.py: the backend starts without an access token
GoogleSDMBackend == [type |-> "google_sdm", access_token |-> ""]

\* the actions _action_to_command has a command for
action_to_command(action) == action \in {"ac_on"}

\* _refresh_access_token, once the token endpoint answered ans: whether it
\* raised (resp.json()["access_token"] is a KeyError), its return value, the
\* backend afterwards, and the request appended to the trace
refresh_with(self, trace, ans) ==
    LET sent == Append(trace, TokenRequest(ans))
    IN  IF ans.err THEN Result(FALSE, self, sent)
        ELSE IF ans.status = 200 THEN
            IF ans.body = None THEN Raised(self, sent)
            ELSE Result(TRUE, [self EXCEPT !.access_token = ans.body], sent)
        ELSE Result(FALSE, self, sent)

refresh_access_token(self, trace) ==
    {refresh_with(self, trace, ans) : ans \in TokenAnswers}

\* the retried command request of lines 83-85, answered by ans
SDM_retry(self, trace, ans) ==
    LET sent == Append(trace, CommandRequest(self.access_token, ans))
    IN  IF ans.err THEN Result(FALSE, self, sent)
        ELSE Result(ans.status = 200, self, sent)

\* variant: a retried request answered 401 is refreshed and retried once more
SDM_after_refresh_again(r) ==
    IF r.exc THEN {r}
    ELSE IF r.ret THEN
        UNION {IF Status200(ans) \/ ans.err \/ ans.status # 401
               THEN {SDM_retry(r.backend, r.trace, ans)}
               ELSE UNION {IF r2.exc \/ ~r2.ret THEN {r2}
                           ELSE {SDM_retry(r2.backend, r2.trace, ans2) :
                                    ans2 \in CommandAnswers} :
                           r2 \in refresh_access_token(r.backend,
                                    SDM_retry(r.backend, r.trace, ans).trace)} :
               ans \in CommandAnswers}
    ELSE {Result(FALSE, r.backend, r.trace)}

\* lines 82-87, after the first command request was answered 401 and the
\* refresh ended as r
SDM_after_refresh(r) ==
    IF r.exc THEN {r}
    ELSE IF r.ret THEN {SDM_retry(r.backend, r.trace, ans) : ans \in CommandAnswers}
    ELSE {Result(FALSE, r.backend, r.trace)}

\* variant: every status other than 200 is refreshed and retried
SDM_post_retryAnyStatus(self, trace, ans) ==
    LET sent == Append(trace, CommandRequest(self.access_token, ans))
    IN  IF ans.err THEN {Result(FALSE, self, sent)}
        ELSE IF ans.status = 200 THEN {Result(TRUE, self, sent)}
        ELSE UNION {SDM_after_refresh(r) : r \in refresh_access_token(self, sent)}

\* lines 77-90, once the first command request got the answer ans
SDM_post(self, trace, ans) ==
    LET sent == Append(trace, CommandRequest(self.access_token, ans))
    IN  IF ans.err THEN {Result(FALSE, self, sent)}
        ELSE IF ans.status = 200 THEN {Result(TRUE, self, sent)}
        ELSE IF ans.status = 401 THEN
            UNION {SDM_after_refresh(r) : r \in refresh_access_token(self, sent)}
        ELSE {Result(FALSE, self, sent)}

\* lines 63-90: the command lookup and the command request
SDM_command(self, action, trace) ==
    IF ~action_to_command(action) THEN {Result(FALSE, self, trace)}
    ELSE UNION {SDM_post(self, trace, ans) : ans \in CommandAnswers}

\* variant: a failed initial refresh does not end the call
SDM_after_initial_refresh_goOn(r, action) ==
    IF r.exc THEN {r}
    ELSE SDM_command(r.backend, action, r.trace)

\* lines 60-61, after the initial refresh ended as r
SDM_after_initial_refresh(r, action) ==
    IF r.exc THEN {r}
    ELSE IF ~r.ret THEN {Result(FALSE, r.backend, r.trace)}
    ELSE SDM_command(r.backend, action, r.trace)

GoogleSDM_trigger(self, action) ==
    IF self.access_token = "" THEN
        UNION {SDM_after_initial_refresh(r, action) :
                    r \in refresh_access_token(self, << >>)}
    ELSE SDM_command(self, action, << >>)

\* self._backend.trigger(action, gesture): dispatch on the backend's class
trigger(backend, action) ==
    IF backend.type = "ifttt" THEN IFTTT_trigger(backend, action)
    ELSE IF backend.type = "home_assistant" THEN HomeAssistant_trigger(backend, action)
    ELSE GoogleSDM_trigger(backend, action)

\* ------------------------------------------------------------------------
\* HomeController (src/src/home/controller.py)
\* ------------------------------------------------------------------------
\* str.lower() on the identifiers of BackendIds
Lower(id) ==
    IF id = "IFTTT" THEN "ifttt"
    ELSE IF id = "Home_Assistant" THEN "home_assistant"
    ELSE id

\* variant: HOME_BACKEND is compared as it is written, without lower()
init_backend_caseSensitive(env) ==
    LET backend_type == env.HOME_BACKEND
    IN  IF backend_type = "ifttt" THEN IFTTTBackend(env.IFTTT_WEBHOOK_KEY)
        ELSE IF backend_type = "home_assistant"
            THEN HomeAssistantBackend(env.HA_LONG_LIVED_TOKEN)
        ELSE IF backend_type = "google_sdm" THEN GoogleSDMBackend
        ELSE IFTTTBackend(env.IFTTT_WEBHOOK_KEY)

\* _init_backend, lines 25-40
init_backend(env) ==
    LET backend_type == Lower(env.HOME_BACKEND)
    IN  IF backend_type = "ifttt" THEN IFTTTBackend(env.IFTTT_WEBHOOK_KEY)
        ELSE IF backend_type = "home_assistant"
            THEN HomeAssistantBackend(env.HA_LONG_LIVED_TOKEN)
        ELSE IF backend_type = "google_sdm" THEN GoogleSDMBackend
        ELSE IFTTTBackend(env.IFTTT_WEBHOOK_KEY)

HomeController(dry_run, env) ==
    [dry_run |-> dry_run, last_action_time |-> EmptyDict, backend |-> init_backend(env)]

\* variant: the window ends one tick early
cooldown_active_shortWindow(last_action_time, name, t, cooldown) ==
    (t - Get(last_action_time, name, 0)) < cooldown - 1

\* variant: "<=" for "<", the end of the window is still blocked
cooldown_active_inclusive(last_action_time, name, t, cooldown) ==
    (t - Get(last_action_time, name, 0)) <= cooldown

\* the cooldown guard of line 52
cooldown_active(last_action_time, name, t, cooldown) ==
    (t - Get(last_action_time, name, 0)) < cooldown

\* How an execute call ends: gate tells how far it got ("no_action",
\* "cooldown" or "passed"), exc whether an exception left execute, ret its
\* return value, self the controller after the call, and triggers the
\* backend.trigger calls it made (none or one), each with its Result.
Outcome(gate, exc, ret, self, triggers) ==
    [gate |-> gate, exc |-> exc, ret |-> ret, self |-> self, triggers |-> triggers]

\* variant: "except requests.RequestException", other exceptions leave execute
execute_backend_exceptRequestOnly(marked, r) ==
    LET after == [marked EXCEPT !.backend = r.backend]
    IN  IF r.exc THEN Outcome("passed", TRUE, FALSE, after, << r >>)
        ELSE Outcome("passed", FALSE, r.ret, after, << r >>)

\* lines 63-70: the try block around backend.trigger, which ended as r
execute_backend(marked, r) ==
    LET after == [marked EXCEPT !.backend = r.backend]
    IN  IF r.exc THEN Outcome("passed", FALSE, FALSE, after, << r >>)
        ELSE Outcome("passed", FALSE, r.ret, after, << r >>)

\* variant: the last-fire time is written before the cooldown guard is tested
execute_markBeforeGate(self, gesture, cooldown, t) ==
    IF Falsy(gesture.action) THEN {Outcome("no_action", FALSE, FALSE, self, << >>)}
    ELSE
        LET marked == [self EXCEPT !.last_action_time = Put(@, gesture.name, t)]
        IN  IF cooldown_active(self.last_action_time, gesture.name, t, cooldown)
                THEN {Outcome("cooldown", FALSE, FALSE, marked, << >>)}
            ELSE IF self.dry_run THEN {Outcome("passed", FALSE, TRUE, marked, << >>)}
            ELSE {execute_backend(marked, r) :
                    r \in trigger(marked.backend, gesture.action)}

\* variant: the last-fire time is written only after the backend succeeded
execute_markOnSuccess(self, gesture, cooldown, t) ==
    IF Falsy(gesture.action) THEN {Outcome("no_action", FALSE, FALSE, self, << >>)}
    ELSE IF cooldown_active(self.last_action_time, gesture.name, t, cooldown)
        THEN {Outcome("cooldown", FALSE, FALSE, self, << >>)}
    ELSE
        LET marked == [self EXCEPT !.last_action_time = Put(@, gesture.name, t)]
        IN  IF self.dry_run THEN {Outcome("passed", FALSE, TRUE, marked, << >>)}
            ELSE {execute_backend(IF ~r.exc /\ r.ret THEN marked ELSE self, r) :
                    r \in trigger(self.backend, gesture.action)}

\* variant: the dry_run flag is not consulted
execute_ignoreDryRun(self, gesture, cooldown, t) ==
    IF Falsy(gesture.action) THEN {Outcome("no_action", FALSE, FALSE, self, << >>)}
    ELSE IF cooldown_active(self.last_action_time, gesture.name, t, cooldown)
        THEN {Outcome("cooldown", FALSE, FALSE, self, << >>)}
    ELSE
        LET marked == [self EXCEPT !.last_action_time = Put(@, gesture.name, t)]
        IN  {execute_backend(marked, r) :
                r \in trigger(marked.backend, gesture.action)}

\* variant: the last-fire record is keyed by the action id
execute_keyByAction(self, gesture, cooldown, t) ==
    IF Falsy(gesture.action) THEN {Outcome("no_action", FALSE, FALSE, self, << >>)}
    ELSE IF cooldown_active(self.last_action_time, gesture.action, t, cooldown)
        THEN {Outcome("cooldown", FALSE, FALSE, self, << >>)}
    ELSE
        LET marked == [self EXCEPT !.last_action_time = Put(@, gesture.action, t)]
        IN  IF self.dry_run THEN {Outcome("passed", FALSE, TRUE, marked, << >>)}
            ELSE {execute_backend(marked, r) :
                    r \in trigger(marked.backend, gesture.action)}

\* execute at clock time t: the set of ways the call can end
execute(self, gesture, cooldown, t) ==
    IF Falsy(gesture.action) THEN {Outcome("no_action", FALSE, FALSE, self, << >>)}
    ELSE IF cooldown_active(self.last_action_time, gesture.name, t, cooldown)
        THEN {Outcome("cooldown", FALSE, FALSE, self, << >>)}
    ELSE
        LET marked == [self EXCEPT !.last_action_time = Put(@, gesture.name, t)]
        IN  IF self.dry_run THEN {Outcome("passed", FALSE, TRUE, marked, << >>)}
            ELSE {execute_backend(marked, r) :
                    r \in trigger(marked.backend, gesture.action)}

\* ------------------------------------------------------------------------
\* Gesture classifier (src/src/gesture/recognizer.py)
\* ------------------------------------------------------------------------
\* Coordinates are normalised frame fractions, counted here in thousandths:
\* 0.055 is 55 units.  landmarks is a function on the MediaPipe indices 0..20
\* that gives each landmark's x and y.
Point(x, y) == [x |-> x, y |-> y]

\* get_fingers_up: << thumb, index, middle, ring, pinky >>, TRUE = extended
get_fingers_up(landmarks, handedness) ==
    << IF handedness = "Right" THEN landmarks[4].x < landmarks[3].x
                               ELSE landmarks[4].x > landmarks[3].x,
       landmarks[8].y < landmarks[6].y,
       landmarks[12].y < landmarks[10].y,
       landmarks[16].y < landmarks[14].y,
       landmarks[20].y < landmarks[18].y >>

\* _tip_distance is the Euclidean norm of the difference of two landmarks;
\* the model keeps its square, and compares it with the squared thresholds
\* (for non-negative d and c, d < c iff d * d < c * c)
tip_distance_sq(landmarks, a, b) ==
    (landmarks[a].x - landmarks[b].x) * (landmarks[a].x - landmarks[b].x)
        + (landmarks[a].y - landmarks[b].y) * (landmarks[a].y - landmarks[b].y)

\* sum(f)
CountTrue(f) == Cardinality({i \in 1..Len(f) : f[i]})

\* a classification: gesture name and confidence in hundredths
Label(name, confidence) == [name |-> name, confidence |-> confidence]

\* variant: the OK rule is tested before the finger-count rules
classify_okFirst(landmarks, handedness) ==
    LET f == get_fingers_up(landmarks, handedness)
        thumb == f[1]
        index == f[2]
        middle == f[3]
        ring == f[4]
        pinky == f[5]
        count == CountTrue(f)
        thumb_index_dist_sq == tip_distance_sq(landmarks, 4, 8)
    IN  IF middle /\ ring /\ pinky /\ thumb_index_dist_sq < 55 * 55
            THEN Label("ok", 85)
        ELSE IF count = 5 THEN Label("open_palm", 95)
        ELSE IF count = 0 THEN Label("fist", 95)
        ELSE IF thumb /\ ~index /\ ~middle /\ ~ring /\ ~pinky THEN
            IF landmarks[4].y < landmarks[0].y THEN Label("thumbs_up", 90)
            ELSE Label("thumbs_down", 85)
        ELSE IF ~thumb /\ index /\ ~middle /\ ~ring /\ ~pinky THEN Label("point", 90)
        ELSE IF ~thumb /\ index /\ middle /\ ~ring /\ ~pinky THEN Label("peace", 90)
        ELSE IF ~thumb /\ index /\ ~middle /\ ~ring /\ pinky THEN Label("rock", 90)
        ELSE IF ~thumb /\ index /\ middle /\ ring /\ ~pinky
            THEN Label("three_fingers", 88)
        ELSE IF ~thumb /\ index /\ middle /\ ring /\ pinky
            THEN Label("four_fingers", 88)
        ELSE IF middle /\ ring /\ pinky /\ thumb_index_dist_sq < 55 * 55
            THEN Label("ok", 85)
        ELSE IF thumb /\ index /\ ~middle /\ ~ring /\ ~pinky THEN
            IF thumb_index_dist_sq < 65 * 65 THEN Label("heart", 90)
            ELSE Label("l_shape", 80)
        ELSE Label("unknown", 50)

\* variant: "<=" for "<" at the heart threshold
classify_heartInclusive(landmarks, handedness) ==
    LET f == get_fingers_up(landmarks, handedness)
        thumb == f[1]
        index == f[2]
        middle == f[3]
        ring == f[4]
        pinky == f[5]
        count == CountTrue(f)
        thumb_index_dist_sq == tip_distance_sq(landmarks, 4, 8)
    IN  IF count = 5 THEN Label("open_palm", 95)
        ELSE IF count = 0 THEN Label("fist", 95)
        ELSE IF thumb /\ ~index /\ ~middle /\ ~ring /\ ~pinky THEN
            IF landmarks[4].y < landmarks[0].y THEN Label("thumbs_up", 90)
            ELSE Label("thumbs_down", 85)
        ELSE IF ~thumb /\ index /\ ~middle /\ ~ring /\ ~pinky THEN Label("point", 90)
        ELSE IF ~thumb /\ index /\ middle /\ ~ring /\ ~pinky THEN Label("peace", 90)
        ELSE IF ~thumb /\ index /\ ~middle /\ ~ring /\ pinky THEN Label("rock", 90)
        ELSE IF ~thumb /\ index /\ middle /\ ring /\ ~pinky
            THEN Label("three_fingers", 88)
        ELSE IF ~thumb /\ index /\ middle /\ ring /\ pinky
            THEN Label("four_fingers", 88)
        ELSE IF middle /\ ring /\ pinky /\ thumb_index_dist_sq < 55 * 55
            THEN Label("ok", 85)
        ELSE IF thumb /\ index /\ ~middle /\ ~ring /\ ~pinky THEN
            IF thumb_index_dist_sq <= 65 * 65 THEN Label("heart", 90)
            ELSE Label("l_shape", 80)
        ELSE Label("unknown", 50)

\* classify, lines 78-131
classify(landmarks, handedness) ==
    LET f == get_fingers_up(landmarks, handedness)
        thumb == f[1]
        index == f[2]
        middle == f[3]
        ring == f[4]
        pinky == f[5]
        count == CountTrue(f)
        thumb_index_dist_sq == tip_distance_sq(landmarks, 4, 8)
    IN  IF count = 5 THEN Label("open_palm", 95)
        ELSE IF count = 0 THEN Label("fist", 95)
        ELSE IF thumb /\ ~index /\ ~middle /\ ~ring /\ ~pinky THEN
            IF landmarks[4].y < landmarks[0].y THEN Label("thumbs_up", 90)
            ELSE Label("thumbs_down", 85)
        ELSE IF ~thumb /\ index /\ ~middle /\ ~ring /\ ~pinky THEN Label("point", 90)
        ELSE IF ~thumb /\ index /\ middle /\ ~ring /\ ~pinky THEN Label("peace", 90)
        ELSE IF ~thumb /\ index /\ ~middle /\ ~ring /\ pinky THEN Label("rock", 90)
        ELSE IF ~thumb /\ index /\ middle /\ ring /\ ~pinky
            THEN Label("three_fingers", 88)
        ELSE IF ~thumb /\ index /\ middle /\ ring /\ pinky
            THEN Label("four_fingers", 88)
        ELSE IF middle /\ ring /\ pinky /\ thumb_index_dist_sq < 55 * 55
            THEN Label("ok", 85)
        ELSE IF thumb /\ index /\ ~middle /\ ~ring /\ ~pinky THEN
            IF thumb_index_dist_sq < 65 * 65 THEN Label("heart", 90)
            ELSE Label("l_shape", 80)
        ELSE Label("unknown", 50)

\* Hands handed to the classifier.  The joints the classifier compares tips
\* with are fixed at 500; tips gives the y of the index, middle, ring and
\* pinky tips, off the offset of the thumb tip from the index tip, ip the
\* offset of the thumb IP joint's x from the thumb tip's x, and wrist the
\* offset of the wrist's y from the thumb tip's y.
TipYs == {400, 500, 600}
\* offsets of length 0, 54, 55 (twice), 64, 65 (twice) and 70
TipOffsets == {<<0, 0>>, <<54, 0>>, <<55, 0>>, <<33, 44>>, <<64, 0>>,
               <<65, 0>>, <<39, 52>>, <<70, 0>>}
Nudges == {-1, 0, 1}

MakeLandmarks(tips, off, ip, wrist) ==
    [i \in 0..20 |->
        IF i = 0 THEN Point(500, tips[1] + off[2] + wrist)
        ELSE IF i = 3 THEN Point(500 + off[1] + ip, 500)
        ELSE IF i = 4 THEN Point(500 + off[1], tips[1] + off[2])
        ELSE IF i = 8 THEN Point(500, tips[1])
        ELSE IF i = 12 THEN Point(500, tips[2])
        ELSE IF i = 16 THEN Point(500, tips[3])
        ELSE IF i = 20 THEN Point(500, tips[4])
        ELSE Point(500, 500)]

\* detector.py HandLandmarks (the detector's confidence is not read)
HandLandmarks(landmarks, handedness) ==
    [landmarks |-> landmarks, handedness |-> handedness]

Hands ==
    {HandLandmarks(MakeLandmarks(tips, off, ip, wrist), handedness) :
        tips \in TipYs \X TipYs \X TipYs \X TipYs, off \in TipOffsets,
        ip \in Nudges, wrist \in Nudges, handedness \in {"Left", "Right"}}

NoLabel == Label(None, 0)
\* no hand has been handed to classify
NoHand == HandLandmarks([i \in 0..20 |-> Point(0, 0)], None)

\* a hand is handed to classify
ClsInit ==
    /\ hand \in Hands
    /\ classified = NoLabel

\* classify(hand.landmarks, hand.handedness)
Classify ==
    /\ classified = NoLabel
    /\ classified' = classify(hand.landmarks, hand.handedness)
    /\ UNCHANGED << hand, now, ctlVars, recVars, loopVars >>

\* ------------------------------------------------------------------------
\* GestureRecognizer (src/src/gesture/recognizer.py)
\* ------------------------------------------------------------------------
\* config.py GestureConfig
GestureConfig(name, action, description, cooldown) ==
    [name |-> name, action |-> action, description |-> description,
     cooldown |-> cooldown]

GestureRecognizer(config) == [config |-> config, last_action_time |-> EmptyDict]

\* what a method call hands back: its return value and the object afterwards
Returned(ret, self) == [ret |-> ret, self |-> self]

\* variant: ">" for ">=", the end of the window is still blocked
can_trigger_strict(self, gesture_name, cooldown, t) ==
    LET last == Get(self.last_action_time, gesture_name, 0)
    IN  Returned((t - last) > cooldown, self)

\* variant: test and set, an eligible key is marked by the query
can_trigger_marking(self, gesture_name, cooldown, t) ==
    LET last == Get(self.last_action_time, gesture_name, 0)
    IN  IF (t - last) >= cooldown
        THEN Returned(TRUE, [self EXCEPT !.last_action_time = Put(@, gesture_name, t)])
        ELSE Returned(FALSE, self)

\* can_trigger at clock time t
can_trigger(self, gesture_name, cooldown, t) ==
    LET last == Get(self.last_action_time, gesture_name, 0)
    IN  Returned((t - last) >= cooldown, self)

\* mark_triggered at clock time t
mark_triggered(self, gesture_name, t) ==
    Returned(None, [self EXCEPT !.last_action_time = Put(@, gesture_name, t)])

\* name.replace("_", " ").title() on the names classify returns
Title(name) ==
    CASE name = "open_palm" -> "Open Palm"
      [] name = "fist" -> "Fist"
      [] name = "thumbs_up" -> "Thumbs Up"
      [] name = "thumbs_down" -> "Thumbs Down"
      [] name = "point" -> "Point"
      [] name = "peace" -> "Peace"
      [] name = "rock" -> "Rock"
      [] name = "three_fingers" -> "Three Fingers"
      [] name = "four_fingers" -> "Four Fingers"
      [] name = "ok" -> "Ok"
      [] name = "heart" -> "Heart"
      [] name = "l_shape" -> "L Shape"
      [] name = "unknown" -> "Unknown"

\* variant: a gesture without a config entry gets its own name as action
recognize_hand_nameAsAction(self, h) ==
    LET c == classify(h.landmarks, h.handedness)
        known == c.name \in DOMAIN self.config
    IN  [name |-> c.name,
         display_name |-> IF known THEN self.config[c.name].name ELSE Title(c.name),
         action |-> IF known THEN self.config[c.name].action ELSE c.name,
         description |-> IF known THEN self.config[c.name].description ELSE None,
         confidence |-> c.confidence,
         handedness |-> h.handedness,
         fingers_up |-> get_fingers_up(h.landmarks, h.handedness),
         landmarks |-> h.landmarks]

\* the RecognizedGesture built for one hand, lines 149-163
recognize_hand(self, h) ==
    LET c == classify(h.landmarks, h.handedness)
        known == c.name \in DOMAIN self.config
    IN  [name |-> c.name,
         display_name |-> IF known THEN self.config[c.name].name ELSE Title(c.name),
         action |-> IF known THEN self.config[c.name].action ELSE None,
         description |-> IF known THEN self.config[c.name].description ELSE None,
         confidence |-> c.confidence,
         handedness |-> h.handedness,
         fingers_up |-> get_fingers_up(h.landmarks, h.handedness),
         landmarks |-> h.landmarks]

\* variant: gestures that have a last-fire time are left out of the result
recognize_skipFired(self, detection) ==
    LET All == [i \in 1..Len(detection) |-> recognize_hand(self, detection[i])]
        Fresh(g) == g.name \notin DOMAIN self.last_action_time
    IN  Returned(SelectSeq(All, Fresh), self)

\* recognize: detection is the sequence detection.hands
recognize(self, detection) ==
    Returned([i \in 1..Len(detection) |-> recognize_hand(self, detection[i])], self)

\* Gesture-action mappings load_config can return: none, the single entry of
\* the thumbs-up example, and one that also maps "fist" and "unknown"
ThumbsUpConfig == GestureConfig("Lights", "lights_on", "Turn the lights on", 3)
Configs ==
    {EmptyDict,
     [g \in {"thumbs_up"} |-> ThumbsUpConfig],
     [g \in {"thumbs_up", "fist", "unknown"} |->
        IF g = "thumbs_up" THEN ThumbsUpConfig
        ELSE IF g = "fist" THEN GestureConfig("Closed hand", "ac_on", "Switch the AC on", 2)
        ELSE GestureConfig("Anything", "party", "Start the party", 2)]}

\* Hands of a frame: a right thumbs-up, a left fist, a right open palm and a
\* right hand with thumb and pinky out (which classify calls "unknown")
SampleHands ==
    {HandLandmarks(MakeLandmarks(<<600, 600, 600, 600>>, <<0, 0>>, 1, 1), "Right"),
     HandLandmarks(MakeLandmarks(<<600, 600, 600, 600>>, <<0, 0>>, 1, 1), "Left"),
     HandLandmarks(MakeLandmarks(<<400, 400, 400, 400>>, <<70, 0>>, 1, 1), "Right"),
     HandLandmarks(MakeLandmarks(<<600, 600, 600, 400>>, <<70, 0>>, 1, 1), "Right")}
\* HandDetector(max_hands=2): a detection holds at most two hands
Detections == {<< >>} \cup {<<h>> : h \in SampleHands}
                \cup {<<h1, h2>> : h1 \in SampleHands, h2 \in SampleHands}

\* a cooldown longer than the value of the clock
LongCooldown == 20
TrackerCooldowns == Cooldowns \cup {LongCooldown}

NoQuestion == [key |-> None, cooldown |-> 0, ret |-> FALSE]
NoRCall ==
    [op |-> "none", key |-> None, cooldown |-> 0, t |-> 0, ret |-> FALSE,
     before |-> GestureRecognizer(EmptyDict), marked |-> -1,
     earlier |-> NoQuestion, detection |-> << >>, gestures |-> << >>]

\* the recognizer of a process that has not called it yet
RecIdle ==
    /\ rcall = NoRCall
    /\ marks = EmptyDict
    /\ asked = NoQuestion

\* recognizer.can_trigger(key, cooldown)
CanTrigger ==
    \E key \in GestureNames, cooldown \in TrackerCooldowns :
        LET r == can_trigger(recognizer, key, cooldown, now)
        IN  /\ recognizer' = r.self
            /\ rcall' = [NoRCall EXCEPT !.op = "can_trigger", !.key = key,
                            !.cooldown = cooldown, !.t = now, !.ret = r.ret,
                            !.before = recognizer,
                            !.marked = Get(marks, key, -1), !.earlier = asked]
            /\ asked' = [key |-> key, cooldown |-> cooldown, ret |-> r.ret]
            /\ UNCHANGED << marks, now, ctlVars, clsVars, loopVars >>

\* recognizer.mark_triggered(key)
MarkTriggered ==
    \E key \in GestureNames :
        LET r == mark_triggered(recognizer, key, now)
        IN  /\ recognizer' = r.self
            /\ rcall' = [NoRCall EXCEPT !.op = "mark_triggered", !.key = key,
                            !.t = now, !.before = recognizer,
                            !.marked = Get(marks, key, -1)]
            /\ marks' = Put(marks, key, now)
            /\ asked' = NoQuestion
            /\ UNCHANGED << now, ctlVars, clsVars, loopVars >>

\* recognizer.recognize(detection)
Recognize ==
    \E detection \in Detections :
        LET r == recognize(recognizer, detection)
        IN  /\ recognizer' = r.self
            /\ rcall' = [NoRCall EXCEPT !.op = "recognize", !.t = now,
                            !.before = recognizer, !.detection = detection,
                            !.gestures = r.ret]
            /\ UNCHANGED << marks, asked, now, ctlVars, clsVars, loopVars >>

\* time passes for the recognizer
RecTick ==
    /\ now < MaxTime
    /\ now' = now + 1
    /\ asked' = NoQuestion
    /\ UNCHANGED << recognizer, rcall, marks, ctlVars, clsVars, loopVars >>

\* ------------------------------------------------------------------------
\* Frame loop (src/main.py) and Visualizer (src/src/ui/visualizer.py)
\* ------------------------------------------------------------------------
\* main.py line 83: the cooldown of a gesture without a config entry
DefaultCooldown == 2
\* frames the camera may drop before it delivers one
MaxDropped == 1

\* Visualizer.__init__, lines 39-41
NoFlash == [display_name |-> None, detail |-> None]
Visualizer == [flash_text |-> NoFlash, flash_time |-> 0]

\* flash_action at clock time t, lines 50-52
flash_action(self, text, t) == [self EXCEPT !.flash_text = text, !.flash_time = t]

\* the fields of a DetectionResult, detector.py lines 37-39
DetectionResultFields == {"hands"}
\* Visualizer.draw, line 63, reads detection.raw_results: an AttributeError
\* when a DetectionResult has no such field
draw_raises == "raw_results" \notin DetectionResultFields

\* main.py lines 82-83
cooldown_for(config, gesture) ==
    IF gesture.name \in DOMAIN config THEN config[gesture.name].cooldown
    ELSE DefaultCooldown

\* variant: no gesture is skipped
skipped_never(gesture) == FALSE

\* main.py lines 80-81
skipped(gesture) == gesture.name = "unknown"

\* main.py line 90: f"{display_name} => {description or action}"
FlashText(gesture) ==
    [display_name |-> gesture.display_name,
     detail |-> IF Falsy(gesture.description) THEN gesture.action
                ELSE gesture.description]

\* variant: the hook is called after every execute
flash_for_always(ret, gesture) == FlashText(gesture)

\* main.py lines 84-91: what is flashed after execute returned ret
flash_for(ret, gesture) == IF ret THEN FlashText(gesture) ELSE NoFlash

\* main() before its first statement
NotStarted ==
    [pc |-> "start", detection |-> << >>, gestures |-> << >>, i |-> 1,
     dropped |-> 0, exit |-> None]
LoopIdle ==
    /\ main = NotStarted
    /\ visualizer = Visualizer
    /\ frameLog = << >>

\* configs of the loop: one that maps "thumbs_up" and "fist" to the same
\* action and also maps "unknown", and the thumbs-up example
SharedActionConfig ==
    [g \in {"thumbs_up", "fist", "unknown"} |->
        IF g = "thumbs_up" THEN GestureConfig("AC", "ac_on", "Switch the AC on", 3)
        ELSE IF g = "fist" THEN GestureConfig("Closed hand", "ac_on", "", 2)
        ELSE GestureConfig("Anything", "party", "Start the party", 2)]
LoopConfigs == {SharedActionConfig, [g \in {"thumbs_up"} |-> ThumbsUpConfig]}

\* main.py lines 53-67: load_config and camera.open succeed, or the process
\* exits
Startup ==
    /\ main.pc = "start"
    /\ \E ok \in BOOLEAN :
        main' = IF ok THEN [main EXCEPT !.pc = "read"]
                ELSE [main EXCEPT !.pc = "terminated", !.exit = "startup"]
    /\ UNCHANGED << now, ctlVars, recVars, clsVars, visualizer, frameLog >>

\* main.py lines 71-74: camera.read() returns None and the loop continues
DroppedFrame ==
    /\ main.pc = "read"
    /\ main.dropped < MaxDropped
    /\ main' = [main EXCEPT !.dropped = @ + 1]
    /\ UNCHANGED << now, ctlVars, recVars, clsVars, visualizer, frameLog >>

\* main.py lines 71-77: a frame is read, detected and recognized
ReadFrame ==
    /\ main.pc = "read"
    /\ \E detection \in Detections :
        main' = [main EXCEPT !.pc = "dispatch", !.detection = detection,
                             !.gestures = recognize(recognizer, detection).ret,
                             !.i = 1]
    /\ frameLog' = << >>
    /\ UNCHANGED << now, ctlVars, recVars, clsVars, visualizer >>

\* main.py lines 79-91: one iteration of the for loop over the gestures
Dispatch ==
    /\ main.pc = "dispatch"
    /\ main.i <= Len(main.gestures)
    /\ LET gesture == main.gestures[main.i]
           cooldown == cooldown_for(recognizer.config, gesture)
       IN  IF skipped(gesture)
           THEN UNCHANGED << controller, visualizer, frameLog >>
           ELSE \E out \in execute(controller, gesture, cooldown, now) :
                    LET text == flash_for(out.ret, gesture)
                    IN  /\ controller' = out.self
                        /\ visualizer' = IF text # NoFlash
                                         THEN flash_action(visualizer, text, now)
                                         ELSE visualizer
                        /\ frameLog' = Append(frameLog,
                                [hand |-> main.i, name |-> gesture.name,
                                 action |-> gesture.action,
                                 cooldown |-> cooldown, t |-> now,
                                 gate |-> out.gate, ret |-> out.ret,
                                 triggers |-> out.triggers,
                                 before |-> controller.last_action_time,
                                 after |-> out.self.last_action_time,
                                 flash |-> text])
    /\ main' = [main EXCEPT !.i = @ + 1]
    /\ UNCHANGED << now, environ, call, lastPass, recVars, clsVars >>

\* main.py line 93 and lines 104-108: visualizer.draw raises, the exception
\* is no KeyboardInterrupt, the finally block runs and the process ends
Draw ==
    /\ main.pc = "dispatch"
    /\ main.i > Len(main.gestures)
    /\ draw_raises
    /\ main' = [main EXCEPT !.pc = "terminated", !.exit = "AttributeError"]
    /\ UNCHANGED << now, ctlVars, recVars, clsVars, visualizer, frameLog >>

\* main.py lines 102-103: Ctrl-C while the loop runs
Interrupt ==
    /\ main.pc \in {"read", "dispatch"}
    /\ main' = [main EXCEPT !.pc = "terminated", !.exit = "interrupt"]
    /\ UNCHANGED << now, ctlVars, recVars, clsVars, visualizer, frameLog >>

\* time passes while the loop runs
LoopTick ==
    /\ main.pc \in {"read", "dispatch"}
    /\ now < MaxTime
    /\ now' = now + 1
    /\ UNCHANGED << ctlVars, recVars, clsVars, loopVars >>

\* ------------------------------------------------------------------------
\* Specification
\* ------------------------------------------------------------------------
BackendIds ==
    {"ifttt", "IFTTT", "home_assistant", "Home_Assistant", "google_sdm", "alexa"}
Env(id, key, token, entities) ==
    [HOME_BACKEND |-> id, IFTTT_WEBHOOK_KEY |-> key,
     HA_LONG_LIVED_TOKEN |-> token, HA_ENTITIES |-> entities]
\* Environments: only the variables of the selected backend vary, the others
\* are never read.
Environs ==
    {Env(id, key, "", {}) : id \in {"ifttt", "IFTTT", "alexa"}, key \in {"", "key"}}
        \cup {Env("home_assistant", "", token, entities) :
                token \in {"", "ha-token"},
                entities \in {{}, {"HA_CLIMATE_ENTITY"},
                              {"HA_CLIMATE_ENTITY", "HA_LIGHT_ENTITY"}}}
        \cup {Env("Home_Assistant", "", "ha-token",
                   {"HA_CLIMATE_ENTITY", "HA_LIGHT_ENTITY"})}
        \cup {Env("google_sdm", "", "", {})}

NoPass == -1
NoCall ==
    [gesture |-> [name |-> None, action |-> None], cooldown |-> 0, t |-> 0,
     before |-> HomeController(FALSE, Env("ifttt", "", "", {})),
     prev |-> NoPass,
     out |-> Outcome("none", FALSE, FALSE,
                     HomeController(FALSE, Env("ifttt", "", "", {})), << >>)]

Init ==
    /\ now = StartTime
    /\ environ \in Environs
    /\ \E dry_run \in BOOLEAN : controller = HomeController(dry_run, environ)
    /\ call = NoCall
    /\ lastPass = EmptyDict
    /\ recognizer = GestureRecognizer(EmptyDict)
    /\ RecIdle
    /\ hand = NoHand
    /\ classified = NoLabel
    /\ LoopIdle

\* time passes
Tick ==
    /\ now < MaxTime
    /\ now' = now + 1
    /\ UNCHANGED << ctlVars, recVars, clsVars, loopVars >>

\* one call controller.execute(gesture, cooldown=cooldown)
Execute ==
    \E gesture \in Gestures, cooldown \in Cooldowns :
        \E out \in execute(controller, gesture, cooldown, now) :
            /\ controller' = out.self
            /\ call' = [gesture |-> gesture, cooldown |-> cooldown, t |-> now,
                        before |-> controller,
                        prev |-> Get(lastPass, gesture.name, NoPass), out |-> out]
            /\ lastPass' = IF out.gate = "passed"
                           THEN Put(lastPass, gesture.name, now)
                           ELSE lastPass
            /\ UNCHANGED << now, environ, recVars, clsVars, loopVars >>

Next == Tick \/ Execute

Spec == Init /\ [][Next]_vars

\* The recognizer on its own: a process that has loaded a config and calls
\* the recognizer's methods; the controller is there and is not called.
InitRecognizer ==
    /\ now = StartTime
    /\ environ = Env("ifttt", "key", "", {})
    /\ controller = HomeController(FALSE, environ)
    /\ call = NoCall
    /\ lastPass = EmptyDict
    /\ \E config \in Configs : recognizer = GestureRecognizer(config)
    /\ RecIdle
    /\ hand = NoHand
    /\ classified = NoLabel
    /\ LoopIdle

NextRecognizer == RecTick \/ CanTrigger \/ MarkTriggered \/ Recognize

SpecRecognizer == InitRecognizer /\ [][NextRecognizer]_vars

\* The classifier on its own: one hand, classified once.
InitClassify ==
    /\ now = StartTime
    /\ environ = Env("ifttt", "key", "", {})
    /\ controller = HomeController(FALSE, environ)
    /\ call = NoCall
    /\ lastPass = EmptyDict
    /\ recognizer = GestureRecognizer(EmptyDict)
    /\ RecIdle
    /\ ClsInit
    /\ LoopIdle

NextClassify == Classify

SpecClassify == InitClassify /\ [][NextClassify]_vars

\* The program: main() with a controller on the webhook backend, live or in
\* dry-run mode.
InitLoop ==
    /\ now = StartTime
    /\ environ = Env("ifttt", "key", "", {})
    /\ \E dry_run \in BOOLEAN : controller = HomeController(dry_run, environ)
    /\ call = NoCall
    /\ lastPass = EmptyDict
    /\ \E config \in LoopConfigs : recognizer = GestureRecognizer(config)
    /\ RecIdle
    /\ hand = NoHand
    /\ classified = NoLabel
    /\ LoopIdle

NextLoop ==
    Startup \/ DroppedFrame \/ ReadFrame \/ Dispatch \/ Draw \/ Interrupt \/ LoopTick

SpecLoop == InitLoop /\ [][NextLoop]_vars

\* ------------------------------------------------------------------------
\* Vocabulary of the properties
\* ------------------------------------------------------------------------
\* an execute call has been made
Called == call.out.gate # "none"
Passed == call.out.gate = "passed"
\* the call invoked backend.trigger
Triggered == call.out.triggers # << >>
\* the Result of that backend.trigger call
Trig == call.out.triggers[1]
\* the call went to the cloud-thermostat backend
SDMTriggered == Triggered /\ call.before.backend.type = "google_sdm"
\* positions of the requests of one kind in a trace
Requests(trace, kind) == {i \in 1..Len(trace) : trace[i].req = kind}

\* ------------------------------------------------------------------------
\* Properties of HomeController.execute
\* ------------------------------------------------------------------------

\* C1: at most one action per cooldown window.  A call that passes the
\* cooldown gate with cooldown cd > 0 comes at least cd after the latest
\* earlier call for the same gesture name that passed the gate; the clock
\* never goes back, so it is at least cd after every earlier one.
C1_AtMostOnePerWindow ==
    (Passed /\ call.cooldown > 0 /\ call.prev # NoPass)
        => call.t - call.prev >= call.cooldown

\* a second call for a gesture passed the gate, with a positive cooldown
C1_Witness ==
    /\ Passed /\ call.cooldown > 0 /\ call.prev # NoPass
    /\ call.t = call.prev + call.cooldown

\* C2: re-eligibility after the window.  Without dry-run, once a gesture has
\* fired at t0, a call for it with an action and cooldown cd at a time t with
\* t0 < t < t0 + cd returns false without invoking the backend, and a call at
\* t >= t0 + cd invokes the backend and returns true when the backend succeeds
\* (t0 + cd included).
C2_ReEligibleAfterWindow ==
    (Called /\ ~Falsy(call.gesture.action) /\ ~call.before.dry_run
            /\ call.prev # NoPass)
        => /\ (call.prev < call.t /\ call.t < call.prev + call.cooldown)
                => (~call.out.exc /\ call.out.ret = FALSE /\ ~Triggered)
           /\ (call.t >= call.prev + call.cooldown)
                => /\ ~call.out.exc
                   /\ Len(call.out.triggers) = 1
                   /\ (~Trig.exc /\ Trig.ret) => call.out.ret = TRUE

\* a gesture fired again exactly at the end of its window
C2_Witness ==
    /\ Called /\ ~call.before.dry_run /\ call.prev # NoPass
    /\ call.cooldown > 0 /\ call.t = call.prev + call.cooldown
    /\ Triggered /\ call.out.ret = TRUE

\* C3: a call rejected by the cooldown gate returns false and changes
\* nothing: every gesture's last-fire time is as before (the window is not
\* extended) and backend.trigger is not invoked.
C3_RejectedNoSideEffects ==
    (call.out.gate = "cooldown")
        => /\ ~call.out.exc /\ call.out.ret = FALSE
           /\ call.out.self.last_action_time = call.before.last_action_time
           /\ call.out.self.backend = call.before.backend
           /\ ~Triggered

\* a call was rejected inside the window of an earlier fire
C3_Witness ==
    /\ call.out.gate = "cooldown"
    /\ call.gesture.name \in DOMAIN call.before.last_action_time
    /\ call.t > call.before.last_action_time[call.gesture.name]

\* C4: the cooldown is consumed whatever the backend does.  A call that
\* passes the gate at time t leaves last-fire[name] = t, also when trigger
\* returned false or raised; and a later call for the gesture before
\* t + cooldown returns false without invoking the backend.
C4_CooldownConsumedRegardless ==
    /\ Passed => /\ call.gesture.name \in DOMAIN call.out.self.last_action_time
                 /\ call.out.self.last_action_time[call.gesture.name] = call.t
    /\ (Called /\ ~Falsy(call.gesture.action) /\ call.prev # NoPass
            /\ call.t < call.prev + call.cooldown)
        => (~call.out.exc /\ call.out.ret = FALSE /\ ~Triggered)

\* the backend call of a passing call raised, and the window was consumed
C4_Witness ==
    /\ Passed /\ Triggered /\ Trig.exc
    /\ call.out.self.last_action_time[call.gesture.name] = call.t

\* C5: in dry-run mode backend.trigger is never invoked, and a call that
\* passes the cooldown gate returns true and sets the gesture's last-fire
\* time to the time of the call.
C5_DryRun ==
    (Called /\ call.before.dry_run)
        => /\ ~Triggered
           /\ call.out.self.backend = call.before.backend
           /\ call.out.self.dry_run
           /\ Passed => /\ ~call.out.exc /\ call.out.ret = TRUE
                        /\ call.gesture.name \in DOMAIN call.out.self.last_action_time
                        /\ call.out.self.last_action_time[call.gesture.name] = call.t

\* a dry-run call fired a gesture for the second time
C5_Witness ==
    /\ Passed /\ call.before.dry_run /\ call.out.ret = TRUE
    /\ call.prev # NoPass /\ call.prev < call.t

\* C6: execute never propagates a backend failure: whatever trigger does, no
\* exception leaves execute, and it returns false when trigger raised.
C6_NoBackendFailurePropagates ==
    Called => /\ ~call.out.exc
              /\ call.out.ret \in BOOLEAN
              /\ (Triggered /\ Trig.exc) => call.out.ret = FALSE
              /\ (Triggered /\ ~Trig.exc) => call.out.ret = Trig.ret

\* trigger raised on a token response with status 200 and no access_token
C6_Witness ==
    /\ SDMTriggered /\ Trig.exc /\ ~call.out.exc /\ call.out.ret = FALSE
    /\ Trig.trace[Len(Trig.trace)].req = "token"
    /\ Trig.trace[Len(Trig.trace)].ans = Answer(FALSE, 200, None)

\* C7: execute on a gesture without an action id (None or "") returns false
\* and does nothing: the controller is as before, no last-fire entry is
\* created, backend.trigger is not invoked; in dry-run and in normal mode.
C7_NoActionIsNoOp ==
    (Called /\ call.gesture.action \in {None, ""})
        => /\ ~call.out.exc /\ call.out.ret = FALSE
           /\ call.out.self = call.before
           /\ DOMAIN call.out.self.last_action_time
                = DOMAIN call.before.last_action_time
           /\ ~Triggered

\* a gesture with an empty action id was executed for a name that never
\* fired, in normal mode
C7_Witness ==
    /\ Called /\ call.gesture.action = "" /\ ~call.before.dry_run
    /\ call.gesture.name \notin DOMAIN call.out.self.last_action_time
    /\ call.out.ret = FALSE

\* ------------------------------------------------------------------------
\* Properties of GoogleSDMBackend.trigger
\* ------------------------------------------------------------------------

\* C8: single retry on 401.  When trigger starts with a cached access token
\* and the command request is answered 401, the call makes exactly one token
\* refresh; if the refresh succeeds, exactly one more command request follows
\* and the result is true iff that request is answered 200; otherwise no
\* further request follows and the result is not true.
C8_SingleRetryOn401 ==
    (SDMTriggered /\ call.before.backend.access_token # ""
            /\ Len(Trig.trace) >= 1 /\ ~Trig.trace[1].ans.err
            /\ Trig.trace[1].ans.status = 401)
        => /\ Trig.trace[1].req = "command"
           /\ Len(Trig.trace) >= 2
           /\ Requests(Trig.trace, "token") = {2}
           /\ IF RefreshOK(Trig.trace[2].ans)
              THEN /\ Len(Trig.trace) = 3
                   /\ Trig.trace[3].req = "command"
                   /\ ~Trig.exc
                   /\ Trig.ret = Status200(Trig.trace[3].ans)
              ELSE /\ Len(Trig.trace) = 2
                   /\ ~(~Trig.exc /\ Trig.ret)

\* a cached token was refused with 401, refreshed once, and the retried
\* command failed again with 401
C8_Witness ==
    /\ SDMTriggered /\ call.before.backend.access_token # ""
    /\ Len(Trig.trace) = 3
    /\ Trig.trace[1].ans = Answer(FALSE, 401, NoBody)
    /\ Trig.trace[3].ans = Answer(FALSE, 401, NoBody)
    /\ Trig.ret = FALSE

\* C9: no retry on anything but 401.  When the first command request is
\* answered by a status other than 200 and 401 or fails in transport, trigger
\* returns false, that request is the only command request and the last
\* request of the call, and the cached access token stays the one the
\* request carried.
C9_NoRetryUnless401 ==
    \A i \in 1..(IF SDMTriggered THEN Len(Trig.trace) ELSE 0) :
        (/\ Trig.trace[i].req = "command"
         /\ \A j \in 1..(i - 1) : Trig.trace[j].req # "command"
         /\ (Trig.trace[i].ans.err \/ Trig.trace[i].ans.status \notin {200, 401}))
            => /\ ~Trig.exc /\ Trig.ret = FALSE
               /\ i = Len(Trig.trace)
               /\ Requests(Trig.trace, "command") = {i}
               /\ Trig.backend.access_token = Trig.trace[i].bearer

\* the first command request of a call was answered 500
C9_Witness ==
    /\ SDMTriggered /\ call.before.backend.access_token # ""
    /\ Trig.trace = << CommandRequest(call.before.backend.access_token,
                                      Answer(FALSE, 500, NoBody)) >>
    /\ call.out.ret = FALSE

\* C10: trigger without a cached access token first refreshes the token.  If
\* the refresh fails (status other than 200, or transport error) the call
\* returns false, sends no command request and the token stays empty; if it
\* succeeds, the backend holds the new token and every command request that
\* follows is sent after it, the first one carrying that token.
C10_NoTokenRefreshFirst ==
    (SDMTriggered /\ call.before.backend.access_token = "")
        => /\ Len(Trig.trace) >= 1
           /\ Trig.trace[1].req = "token"
           /\ (Trig.trace[1].ans.err \/ Trig.trace[1].ans.status # 200)
                => /\ ~Trig.exc /\ Trig.ret = FALSE
                   /\ Len(Trig.trace) = 1
                   /\ Trig.backend.access_token = ""
           /\ RefreshOK(Trig.trace[1].ans)
                => /\ Trig.backend.access_token # ""
                   /\ Len(Trig.trace) = 1
                        => Trig.backend.access_token = Trig.trace[1].ans.body
                   /\ Len(Trig.trace) >= 2
                        => /\ Trig.trace[2].req = "command"
                           /\ Trig.trace[2].bearer = Trig.trace[1].ans.body

\* the initial refresh was refused and the call failed without a command
C10_Witness ==
    /\ SDMTriggered /\ call.before.backend.access_token = ""
    /\ Trig.trace = << TokenRequest(Answer(FALSE, 400, NoBody)) >>
    /\ call.out.ret = FALSE
    /\ call.out.self.backend.access_token = ""

\* ------------------------------------------------------------------------
\* Properties of the cooldown tracker and of recognize
\* ------------------------------------------------------------------------
AskedCanTrigger == rcall.op = "can_trigger"
Recognized == rcall.op = "recognize"

\* C11: debounce.  After mark_triggered(key) at t0, can_trigger(key, cd) at a
\* time t with t0 <= t < t0 + cd is false, and at a time t >= t0 + cd is true.
C11_TrackerDebounce ==
    (AskedCanTrigger /\ rcall.marked # -1 /\ rcall.t >= rcall.marked)
        => /\ (rcall.t < rcall.marked + rcall.cooldown) => rcall.ret = FALSE
           /\ (rcall.t >= rcall.marked + rcall.cooldown) => rcall.ret = TRUE

\* a marked key was asked for exactly at the end of its window
C11_Witness ==
    /\ AskedCanTrigger /\ rcall.marked # -1 /\ rcall.cooldown > 0
    /\ rcall.t = rcall.marked + rcall.cooldown
    /\ rcall.ret = TRUE

\* C12: a key that never fired is eligible on first sight, for every cooldown
\* and every value of the clock: can_trigger is true for a key that is not in
\* the last-fire record, and the first execute for a gesture with an action
\* passes the cooldown gate.
C12_AbsentKeyAlwaysEligible ==
    (AskedCanTrigger /\ rcall.key \notin DOMAIN rcall.before.last_action_time)
        => /\ rcall.ret = TRUE
           /\ (rcall.key \notin DOMAIN controller.last_action_time)
                => \A out \in execute(controller,
                                      [name |-> rcall.key, action |-> "lights_on"],
                                      rcall.cooldown, rcall.t) :
                        out.gate = "passed"

\* C13: can_trigger is a pure query.  It leaves the recognizer as it was, and
\* asked again for the same key and cooldown at the same clock time, with no
\* mark_triggered in between, it gives the same answer.
C13_CanTriggerPure ==
    AskedCanTrigger
        => /\ recognizer = rcall.before
           /\ (rcall.earlier.key = rcall.key
                    /\ rcall.earlier.cooldown = rcall.cooldown)
                => rcall.ret = rcall.earlier.ret

\* an eligible key was asked for twice in a row
C13_Witness ==
    /\ AskedCanTrigger /\ rcall.earlier.key = rcall.key
    /\ rcall.earlier.cooldown = rcall.cooldown /\ rcall.cooldown > 0
    /\ rcall.ret = TRUE

\* C14: recognize returns one gesture per hand, in the order of the hands,
\* the i-th with the handedness and landmarks of the i-th hand; it leaves the
\* recognizer as it was, and its result does not depend on the last-fire
\* record.
C14_RecognizeOnePerHand ==
    Recognized
        => /\ Len(rcall.gestures) = Len(rcall.detection)
           /\ \A i \in 1..Len(rcall.detection) :
                /\ i \in DOMAIN rcall.gestures
                /\ rcall.gestures[i].handedness = rcall.detection[i].handedness
                /\ rcall.gestures[i].landmarks = rcall.detection[i].landmarks
           /\ recognizer = rcall.before
           /\ rcall.gestures
                = recognize([rcall.before EXCEPT !.last_action_time = EmptyDict],
                            rcall.detection).ret

\* two hands were recognized, the first showing a gesture that has fired
C14_Witness ==
    /\ Recognized /\ Len(rcall.detection) = 2 /\ Len(rcall.gestures) = 2
    /\ rcall.gestures[1].name \in DOMAIN rcall.before.last_action_time

\* C15: a classified name without a config entry raises nothing and gives a
\* gesture with action None, description None and the synthesized display
\* name; a name with an entry gives that entry's name, action and
\* description.  Hence execute on a gesture without a config entry never
\* invokes the backend.
C15_UnmappedGestureNoAction ==
    Recognized
        => \A i \in 1..Len(rcall.gestures) :
            LET g == rcall.gestures[i]
                h == rcall.detection[i]
                config == rcall.before.config
            IN  /\ g.name = classify(h.landmarks, h.handedness).name
                /\ (g.name \in DOMAIN config)
                    => /\ g.display_name = config[g.name].name
                       /\ g.action = config[g.name].action
                       /\ g.description = config[g.name].description
                /\ (g.name \notin DOMAIN config)
                    => /\ g.action = None
                       /\ g.description = None
                       /\ g.display_name = Title(g.name)
                       /\ \A cooldown \in TrackerCooldowns :
                            \A out \in execute(controller, g, cooldown, rcall.t) :
                                out.ret = FALSE /\ out.triggers = << >>

\* a hand showed a gesture that a non-empty config has no entry for
C15_Witness ==
    /\ Recognized /\ rcall.before.config # EmptyDict
    /\ \E i \in 1..Len(rcall.gestures) :
        /\ rcall.gestures[i].name = "open_palm"
        /\ rcall.gestures[i].action = None
        /\ rcall.gestures[i].display_name = "Open Palm"

\* ------------------------------------------------------------------------
\* Properties of classify
\* ------------------------------------------------------------------------
WasClassified == classified # NoLabel
\* the fingers of the hand that are extended
Extended ==
    LET f == get_fingers_up(hand.landmarks, hand.handedness)
    IN  {n \in {"thumb", "index", "middle", "ring", "pinky"} :
            f[CASE n = "thumb" -> 1 [] n = "index" -> 2 [] n = "middle" -> 3
                [] n = "ring" -> 4 [] n = "pinky" -> 5]}
ThumbTipAboveWrist == hand.landmarks[4].y < hand.landmarks[0].y
\* the thumb-tip/index-tip distance is below c thousandths
DistanceBelow(c) ==
    (hand.landmarks[4].x - hand.landmarks[8].x) * (hand.landmarks[4].x - hand.landmarks[8].x)
        + (hand.landmarks[4].y - hand.landmarks[8].y) * (hand.landmarks[4].y - hand.landmarks[8].y)
        < c * c

\* the ordered decision table of the classifier's contract: the first row
\* whose condition holds gives the gesture
DecisionTable ==
    << [when |-> Extended = {"thumb", "index", "middle", "ring", "pinky"},
        then |-> Label("open_palm", 95)],
       [when |-> Extended = {}, then |-> Label("fist", 95)],
       [when |-> Extended = {"thumb"} /\ ThumbTipAboveWrist,
        then |-> Label("thumbs_up", 90)],
       [when |-> Extended = {"thumb"} /\ ~ThumbTipAboveWrist,
        then |-> Label("thumbs_down", 85)],
       [when |-> Extended = {"index"}, then |-> Label("point", 90)],
       [when |-> Extended = {"index", "middle"}, then |-> Label("peace", 90)],
       [when |-> Extended = {"index", "pinky"}, then |-> Label("rock", 90)],
       [when |-> Extended = {"index", "middle", "ring"},
        then |-> Label("three_fingers", 88)],
       [when |-> Extended = {"index", "middle", "ring", "pinky"},
        then |-> Label("four_fingers", 88)],
       [when |-> {"middle", "ring", "pinky"} \subseteq Extended /\ DistanceBelow(55),
        then |-> Label("ok", 85)],
       [when |-> Extended = {"thumb", "index"} /\ DistanceBelow(65),
        then |-> Label("heart", 90)],
       [when |-> Extended = {"thumb", "index"} /\ ~DistanceBelow(65),
        then |-> Label("l_shape", 80)],
       [when |-> TRUE, then |-> Label("unknown", 50)] >>
FirstRow ==
    CHOOSE i \in 1..Len(DecisionTable) :
        /\ DecisionTable[i].when
        /\ \A j \in 1..(i - 1) : ~DecisionTable[j].when

\* C16: classify returns the gesture and confidence of the first matching row
\* of the decision table, on every finger-state vector, thumb-tip position
\* and tip distance; "ok" is returned only when the index finger is not
\* extended.
C16_ClassifyFollowsTable ==
    WasClassified
        => /\ classified = DecisionTable[FirstRow].then
           /\ (classified.name = "ok") => "index" \notin Extended

\* a left hand with all five fingers out and the tips 54 apart is an open palm
C16_Witness ==
    /\ WasClassified /\ hand.handedness = "Left"
    /\ Cardinality(Extended) = 5 /\ DistanceBelow(55)
    /\ classified = Label("open_palm", 95)

\* C17: with only thumb and index extended, a tip distance below 0.065 gives
\* (heart, 0.90) and a distance of 0.065 or more gives (l_shape, 0.80).
C17_HeartBoundary ==
    (WasClassified /\ Extended = {"thumb", "index"})
        => /\ DistanceBelow(65) => classified = Label("heart", 90)
           /\ ~DistanceBelow(65) => classified = Label("l_shape", 80)

\* thumb and index out with the tips exactly 0.065 apart is an L shape
C17_Witness ==
    /\ WasClassified /\ Extended = {"thumb", "index"}
    /\ ~DistanceBelow(65) /\ DistanceBelow(66)
    /\ hand.landmarks[4].y # hand.landmarks[8].y
    /\ classified = Label("l_shape", 80)

\* ------------------------------------------------------------------------
\* Properties of backend selection and of the single-request backends
\* ------------------------------------------------------------------------
KnownIds == {"ifttt", "home_assistant", "google_sdm"}
\* no call of execute has changed the kind of backend or the dry-run flag
SelectionKept ==
    Called => /\ call.out.self.backend.type = call.before.backend.type
              /\ call.out.self.dry_run = call.before.dry_run
              /\ controller.backend.type = call.before.backend.type
              /\ controller.dry_run = call.before.dry_run

\* C18 as stated: 'ifttt', 'home_assistant' or 'google_sdm' selects the
\* matching backend, any other identifier selects the webhook backend, and no
\* execute call changes the active backend or the dry_run flag.
C18_OtherIdentifierSelectsWebhook ==
    /\ controller.backend.type
        = (IF environ.HOME_BACKEND \in KnownIds THEN environ.HOME_BACKEND
           ELSE "ifttt")
    /\ SelectionKept

\* C18, amended: the identifier is compared without regard to letter case.
\* An identifier that is 'ifttt', 'home_assistant' or 'google_sdm' in some
\* spelling selects the matching backend, every other identifier selects the
\* webhook backend, and no execute call changes the active backend or the
\* dry_run flag.
C18_BackendSelectedOnce ==
    /\ controller.backend.type
        = (CASE environ.HOME_BACKEND \in {"ifttt", "IFTTT"} -> "ifttt"
             [] environ.HOME_BACKEND \in {"home_assistant", "Home_Assistant"}
                    -> "home_assistant"
             [] environ.HOME_BACKEND = "google_sdm" -> "google_sdm"
             [] OTHER -> "ifttt")
    /\ SelectionKept

\* a controller configured with "Home_Assistant" sent a command through the
\* home-automation backend
C18_Witness ==
    /\ Called /\ Triggered
    /\ environ.HOME_BACKEND = "Home_Assistant"
    /\ controller.backend.type = "home_assistant"
    /\ Len(Trig.trace) = 1

\* C19: a trigger of the webhook backend sends at most one POST; without an
\* API key it sends none and returns false; otherwise it returns true iff the
\* POST is answered 200, and false on any other status and on a transport
\* error.
C19_WebhookOnePost ==
    (Triggered /\ call.before.backend.type = "ifttt")
        => /\ ~Trig.exc
           /\ Len(Trig.trace) <= 1
           /\ Requests(Trig.trace, "token") = {}
           /\ IF call.before.backend.api_key = ""
              THEN Trig.trace = << >> /\ Trig.ret = FALSE
              ELSE /\ Len(Trig.trace) = 1
                   /\ Trig.ret = (~Trig.trace[1].ans.err
                                    /\ Trig.trace[1].ans.status = 200)

\* the webhook answered 201 and the trigger returned false after one POST
C19_Witness ==
    /\ Triggered /\ call.before.backend.type = "ifttt"
    /\ Len(Trig.trace) = 1
    /\ Trig.trace[1].ans = Answer(FALSE, 201, NoBody)
    /\ Trig.ret = FALSE

\* C20: a trigger of the home-automation backend returns false without a
\* request when the bearer token is missing, the action has no entry in the
\* action map, or the entity of the action is not configured; otherwise it
\* sends exactly one request and returns true iff that request is answered
\* 200 or 201.
C20_HomeAssistantOneRequest ==
    (Triggered /\ call.before.backend.type = "home_assistant")
        => /\ ~Trig.exc
           /\ IF \/ call.before.backend.token = ""
                 \/ call.gesture.action \notin {"ac_on", "lights_on"}
                 \/ (call.gesture.action = "ac_on"
                        /\ "HA_CLIMATE_ENTITY" \notin environ.HA_ENTITIES)
                 \/ (call.gesture.action = "lights_on"
                        /\ "HA_LIGHT_ENTITY" \notin environ.HA_ENTITIES)
              THEN Trig.trace = << >> /\ Trig.ret = FALSE
              ELSE /\ Len(Trig.trace) = 1
                   /\ Trig.trace[1].req = "command"
                   /\ Trig.ret = (~Trig.trace[1].ans.err
                                    /\ Trig.trace[1].ans.status \in {200, 201})

\* with a token and a climate entity but no light entity, lights_on was
\* refused without a request
C20_Witness ==
    /\ Triggered /\ call.before.backend.type = "home_assistant"
    /\ call.before.backend.token # ""
    /\ call.gesture.action = "lights_on"
    /\ environ.HA_ENTITIES = {"HA_CLIMATE_ENTITY"}
    /\ Trig.trace = << >> /\ Trig.ret = FALSE

\* ------------------------------------------------------------------------
\* Properties of the frame loop
\* ------------------------------------------------------------------------
Terminated == main.pc = "terminated"
\* the entries of the frame log whose execute call reached the backend
BackendCalls == {k \in 1..Len(frameLog) : frameLog[k].triggers # << >>}

\* C21: the frame loop survives every frame.  The process ends only on a quit
\* key, an interrupt or a startup failure; a frame that was read is detected,
\* recognized, dispatched and drawn, and the loop goes on.
C21_LoopSurvivesEveryFrame ==
    Terminated => main.exit \in {"quit", "interrupt", "startup"}

\* C22: within a frame, flash_action is invoked for a gesture iff execute
\* returned true for it, dry-run included; never for a gesture that was
\* blocked by the cooldown, had no action, or whose backend call failed.
C22_FlashIffExecuteTrue ==
    /\ \A k \in 1..Len(frameLog) :
        LET e == frameLog[k]
        IN  /\ (e.flash # NoFlash) <=> (e.ret = TRUE)
            /\ e.gate \in {"cooldown", "no_action"} => e.flash = NoFlash
            /\ (e.triggers # << >> /\ ~e.triggers[1].ret) => e.flash = NoFlash
            /\ e.flash # NoFlash => e.flash.display_name = main.gestures[e.hand].display_name
    /\ (visualizer.flash_text # NoFlash)
        <=> (\E k \in 1..Len(frameLog) : frameLog[k].ret = TRUE)

\* one frame in which a backend call failed without a flash and a later
\* gesture was dispatched and flashed
C22_Witness ==
    /\ Len(frameLog) = 2
    /\ frameLog[1].triggers # << >> /\ frameLog[1].ret = FALSE
    /\ frameLog[1].flash = NoFlash
    /\ frameLog[2].ret = TRUE /\ frameLog[2].flash # NoFlash
    /\ visualizer.flash_text = frameLog[2].flash
\* C23: the dispatcher's cooldown gate and the tracker share one last-fire
\* record: the controller holds no cooldown map of its own beside the
\* recognizer's, and after execute fired a gesture at t0 with a cooldown,
\* can_trigger for the gesture's name and that cooldown is false until
\* t0 + cooldown.
C23_SharedLastFireRecord ==
    /\ controller.last_action_time = recognizer.last_action_time
    /\ \A k \in 1..Len(frameLog) :
        LET e == frameLog[k]
        IN  (e.gate = "passed" /\ now < e.t + e.cooldown)
                => ~can_trigger(recognizer, e.name, e.cooldown, now).ret

\* the last-fire record of the dispatcher changed in a call of execute
LatChanged(e) == e.after # e.before
\* two entries of the frame log for the same gesture name, the later one
\* reaching the backend although the earlier one did
SameNameTwice(j, k) ==
    /\ j < k /\ frameLog[j].name = frameLog[k].name
    /\ frameLog[k].cooldown > 0
    /\ j \in BackendCalls /\ k \in BackendCalls
\* firing a gesture leaves the last-fire time of every other key as it was
OtherKeysKept ==
    \A k \in 1..Len(frameLog) :
        LET e == frameLog[k]
        IN  \A other \in (DOMAIN e.before \cup DOMAIN e.after) \ {e.name} :
                /\ other \in DOMAIN e.before /\ other \in DOMAIN e.after
                /\ e.after[other] = e.before[other]

\* C26 as stated: the cooldown is keyed by gesture name, firing gesture A
\* never changes the eligibility of a gesture B with another name, and two
\* hands showing the same gesture in one frame, with a cooldown above 0,
\* cause at most one backend call.
C26_SameGestureOneCallPerFrame ==
    /\ OtherKeysKept
    /\ \A j, k \in 1..Len(frameLog) : ~SameNameTwice(j, k)

\* C26, amended: the cooldown is keyed by gesture name, firing gesture A
\* never changes the eligibility of a gesture B with another name, and two
\* hands showing the same gesture in one frame, with a cooldown above 0,
\* cause a second backend call only when the clock has advanced by at least
\* the cooldown between the two execute calls.
C26_KeyedByGestureName ==
    /\ OtherKeysKept
    /\ \A j, k \in 1..Len(frameLog) :
        SameNameTwice(j, k) => frameLog[k].t - frameLog[j].t >= frameLog[k].cooldown

\* a thumbs-up and a fist, mapped to the same action, both reached the
\* backend with it at the same clock time
C26_Witness ==
    /\ Len(frameLog) = 2 /\ BackendCalls = {1, 2}
    /\ frameLog[1].name # frameLog[2].name
    /\ frameLog[1].action = frameLog[2].action
    /\ frameLog[1].t = frameLog[2].t
    /\ frameLog[2].before # EmptyDict

\* the hands of the frame the for loop is done with and has not skipped
Dispatchable == {h \in 1..Len(main.gestures) :
                    h < main.i /\ main.gestures[h].name # "unknown"}

\* C27: the frame loop never passes an "unknown" gesture to execute, also
\* when the config maps "unknown" to an action, and there is no cooldown
\* entry for it; every other gesture of the frame is passed to execute once,
\* in recognition order, with the cooldown of its config entry, or 2.0
\* without one.
C27_UnknownNeverDispatched ==
    /\ "unknown" \notin DOMAIN controller.last_action_time
    /\ \A k \in 1..Len(frameLog) :
        LET e == frameLog[k]
            config == recognizer.config
        IN  /\ e.name # "unknown"
            /\ e.hand \in Dispatchable
            /\ e.name = main.gestures[e.hand].name
            /\ e.cooldown = (IF e.name \in DOMAIN config
                             THEN config[e.name].cooldown ELSE 2)
            /\ \A j \in 1..(k - 1) : frameLog[j].hand < e.hand
    /\ Dispatchable = {frameLog[k].hand : k \in 1..Len(frameLog)}

\* under a config that maps "unknown", a frame with an unknown hand and a
\* thumbs-up was dispatched: one execute call, for the second hand
C27_Witness ==
    /\ "unknown" \in DOMAIN recognizer.config
    /\ Len(main.gestures) = 2 /\ main.i = 3
    /\ main.gestures[1].name = "unknown" /\ main.gestures[1].action = "party"
    /\ Len(frameLog) = 1 /\ frameLog[1].hand = 2
    /\ frameLog[1].ret = TRUE

\* ------------------------------------------------------------------------
\* Further properties of the dispatcher and of the cloud-thermostat backend
\* ------------------------------------------------------------------------
\* C24: when a command request is answered 401 and the token refresh that
\* follows fails, the cached access token is cleared, so the next trigger
\* call starts with a token refresh.
C24_TokenClearedOn401 ==
    (SDMTriggered /\ call.before.backend.access_token # ""
            /\ Len(Trig.trace) = 2
            /\ Trig.trace[1].req = "command" /\ ~Trig.trace[1].ans.err
            /\ Trig.trace[1].ans.status = 401
            /\ Trig.trace[2].req = "token" /\ ~RefreshOK(Trig.trace[2].ans))
        => /\ call.out.self.backend.access_token = ""
           /\ \A r \in GoogleSDM_trigger(call.out.self.backend, "ac_on") :
                r.trace # << >> /\ r.trace[1].req = "token"

\* C25: the dispatcher's cooldown record only grows.  No execute call removes
\* an entry or lowers a timestamp; a call adds at most the name of its
\* gesture, and only when the gesture has an action; so the keys are names
\* for which execute was called with an action, all of them gesture names.
C25_RecordOnlyGrows ==
    /\ DOMAIN controller.last_action_time \subseteq DOMAIN lastPass
    /\ DOMAIN controller.last_action_time \subseteq GestureNames
    /\ Called
        => LET b == call.before.last_action_time
               a == call.out.self.last_action_time
           IN  /\ DOMAIN b \subseteq DOMAIN a
               /\ \A k \in DOMAIN b : a[k] >= b[k]
               /\ DOMAIN a \subseteq DOMAIN b \cup
                    (IF call.gesture.action \in {None, ""} THEN {}
                     ELSE {call.gesture.name})
               /\ controller.last_action_time = a

\* with an entry for another name in the record, a gesture fired again at a
\* later time
C25_Witness ==
    /\ Called /\ Passed
    /\ call.gesture.name \in DOMAIN call.before.last_action_time
    /\ call.before.last_action_time[call.gesture.name] < call.t
    /\ call.out.self.last_action_time[call.gesture.name] = call.t
    /\ DOMAIN call.out.self.last_action_time = GestureNames

\* the request bounds of one trigger call of the cloud-thermostat backend
SDMRequestBounds ==
    LET trace == Trig.trace
        commands == Requests(trace, "command")
        tokens == Requests(trace, "token")
    IN  /\ Cardinality(commands) <= 2
        /\ Cardinality(tokens) <= 2
        /\ call.before.backend.access_token # "" => Cardinality(tokens) <= 1
        /\ \A i \in tokens : i = 1 \/ (trace[i - 1].req = "command"
                                        /\ ~trace[i - 1].ans.err
                                        /\ trace[i - 1].ans.status = 401)
        /\ \A i, j \in commands :
            i < j => /\ j = i + 2
                     /\ trace[i + 1].req = "token"
                     /\ RefreshOK(trace[i + 1].ans)
                     /\ trace[j].bearer = trace[i + 1].ans.body
        /\ call.gesture.action # "ac_on" => commands = {}

\* C28 as stated: a trigger call sends at most two command requests and at
\* most two token requests, a second command request only after a successful
\* refresh and with the refreshed token, and for an action without a command
\* mapping it returns false with no command request.
C28_UnmappedActionReturnsFalse ==
    SDMTriggered
        => /\ SDMRequestBounds
           /\ call.gesture.action # "ac_on" => (~Trig.exc /\ Trig.ret = FALSE)

\* C28, amended: the same bounds; for an action without a command mapping
\* there is no command request and the call never returns true: it returns
\* false, or, started without a token, raises when the token answer has
\* status 200 and no access_token.
C28_RequestBound ==
    SDMTriggered
        => /\ SDMRequestBounds
           /\ call.gesture.action # "ac_on"
                => \/ ~Trig.exc /\ Trig.ret = FALSE
                   \/ /\ Trig.exc
                      /\ call.before.backend.access_token = ""
                      /\ Len(Trig.trace) = 1
                      /\ Status200(Trig.trace[1].ans)
                      /\ Trig.trace[1].ans.body = None

\* started without a token, the call refreshed, was refused with 401,
\* refreshed again and sent the command a second time with the new token
C28_Witness ==
    /\ SDMTriggered /\ call.before.backend.access_token = ""
    /\ Len(Trig.trace) = 4
    /\ Requests(Trig.trace, "token") = {1, 3}
    /\ Requests(Trig.trace, "command") = {2, 4}
    /\ Trig.trace[4].bearer = Trig.trace[3].ans.body
    /\ Trig.trace[4].bearer # Trig.trace[2].bearer

====
